---- MODULE Spec2Model ----
(***************************************************************************)
(* Gateway / dispatch layer of llama_toolchain/distribution/server.py:     *)
(*   - topological_sort: construction order of the provider specs          *)
(*   - create_dynamic_typed_route: unary and streaming (SSE) endpoints     *)
(*   - passthrough: the raw streaming reverse proxy                        *)
(*   - translate_exception / global_exception_handler                      *)
(* Each component has its own specification (SpecSort, SpecRoute,          *)
(* SpecProxy); the variables of the other components stay idle.            *)
(***************************************************************************)
EXTENDS Integers, Sequences, FiniteSets, TLC

VARIABLES
    \* ---- topological_sort
    providers,        \* the input list of ProviderSpec
    sort_pc,          \* "input" | "done"
    sort_result,      \* [err, order] once topological_sort has run
    \* ---- create_dynamic_typed_route: one request to a typed local endpoint
    is_streaming,     \* is_async_iterator_type(response_model), fixed at bind time
    handler,          \* what func does: [outcome, value, exc] or [items, fail]
    ep_pc,            \* position of endpoint / sse_generator
    produced,         \* number of items event_gen has yielded so far
    event_gen,        \* state of the producer async generator
    events,           \* SSE events yielded by sse_generator, in order
    statuses,         \* status codes committed for this request, in order
    responses,        \* whole (non-streaming) responses sent for this request
    raised,           \* exception raised out of endpoint, or NoExc
    cancel_len,       \* Len(events) when the connection was cancelled, -1 if not
    serving,          \* the serving loop is alive
    \* ---- passthrough.iterating_response: one proxied request
    downstream,       \* what the downstream does: its response and its failure
    px_pc,            \* position of iterating_response
    response_started, \* the local of line 103
    hdr_i,            \* header lines yielded so far
    chunk_i,          \* body chunks read so far
    relayed,          \* what iterating_response has yielded, in order
    conn_open,        \* the downstream response (connection) is open
    px_raised,        \* exception raised out of iterating_response, or "none"
    px_failed_len,    \* Len(relayed) when the downstream failed, -1 if not
    px_cancel_len,    \* Len(relayed) when the client cancelled, -1 if not
    \* ---- startup: main, resolve_impls (providers is dist.provider_specs.values())
    config,           \* the Api values that have an entry in config["providers"]
    env,              \* what the providers do: a constructor that raises, a missing method
    st_pc,            \* position of main: "start" | "resolved" | "bound" | "serving" | "failed"
    impls,            \* the mapping resolve_impls returned to main
    ctor_calls,       \* the instantiate_client / instantiate_provider calls, in order
    st_err,           \* the exception that aborted main, or NoStartupErr
    routes,           \* the routes registered on app, in order
    app_serving,      \* uvicorn.run(app) was reached
    \* ---- EleutherEvalsAdapter.run_evals on the serving loop
    ev_pc,            \* position of run_evals
    ev_left,          \* requests generate_until still has to send
    ev_done,          \* responses generate_until has collected
    thr_alive,        \* _thr.is_alive()
    worker,           \* the coroutine handed to _loop: "none" | "pending" | "done"
    main_thread,      \* what the serving loop's thread is doing
    other_left        \* steps the other in-flight requests still have to take

sortVars == <<providers, sort_pc, sort_result>>

routeVars == <<is_streaming, handler, ep_pc, produced, event_gen, events,
               statuses, responses, raised, cancel_len, serving>>

proxyVars == <<downstream, px_pc, response_started, hdr_i, chunk_i, relayed,
               conn_open, px_raised, px_failed_len, px_cancel_len>>

startupVars == <<config, env, st_pc, impls, ctor_calls, st_err, routes, app_serving>>

evalVars == <<ev_pc, ev_left, ev_done, thr_alive, worker, main_thread, other_left>>

vars == <<providers, sort_pc, sort_result,
          is_streaming, handler, ep_pc, produced, event_gen, events,
          statuses, responses, raised, cancel_len, serving,
          downstream, px_pc, response_started, hdr_i, chunk_i, relayed,
          conn_open, px_raised, px_failed_len, px_cancel_len,
          config, env, st_pc, impls, ctor_calls, st_err, routes, app_serving,
          ev_pc, ev_left, ev_done, thr_alive, worker, main_thread, other_left>>

(***************************************************************************)
(* Bounds of the model                                                     *)
(***************************************************************************)
MaxProviders == 3
MaxDeps == 2
MaxItems == 3
NumValues == 2
MaxHeaders == 2
MaxChunks == 2
MaxStartupDeps == 1
MaxSamples == 3
MaxOtherSteps == 3

(***************************************************************************)
(* Data model: Api, ProviderSpec                                           *)
(***************************************************************************)
\* members of the Api enum imported from .datatypes
Api == {"inference", "safety", "memory"}

Range(s) == {s[i] : i \in DOMAIN s}

\* sequences over S without repetition, of length at most n
DistinctSeqs(S, n) ==
    UNION {{s \in [1..k -> S] : \A i, j \in 1..k : i # j => s[i] # s[j]} : k \in 0..n}

\* the lists api_dependencies can be
DepLists == DistinctSeqs(Api, MaxDeps)

\* a ProviderSpec: remote marks a RemoteProviderSpec; api_dependencies is a list
ProviderSpec ==
    [api : Api, remote : BOOLEAN, api_dependencies : DepLists]

(***************************************************************************)
(* topological_sort                                                        *)
(***************************************************************************)
\* by_id = {x.api: x for x in providers}: a later spec of the same api wins
by_id(ps) ==
    [a \in {ps[i].api : i \in DOMAIN ps} |->
        ps[CHOOSE i \in DOMAIN ps :
              ps[i].api = a /\ \A j \in DOMAIN ps : ps[j].api = a => j <= i]]

RECURSIVE dfs(_, _, _)
RECURSIVE dfsDeps(_, _, _, _)

\* mutant of dfsDeps: a dependency that is not in the input is passed over
dfsDeps_skip_missing(by, a, i, st) ==
    IF st.err # "none" \/ i > Len(a.api_dependencies) THEN st
    ELSE LET api == a.api_dependencies[i] IN
         IF api \in st.visited \/ api \notin DOMAIN by THEN dfsDeps(by, a, i + 1, st)
         ELSE dfsDeps(by, a, i + 1, dfs(by, by[api], st))

\* the loop `for api in a.api_dependencies` of dfs, from index i on;
\* by_id[api] of an api that is not in the input raises KeyError
dfsDeps(by, a, i, st) ==
    IF st.err # "none" \/ i > Len(a.api_dependencies) THEN st
    ELSE LET api == a.api_dependencies[i] IN
         IF api \in st.visited THEN dfsDeps(by, a, i + 1, st)
         ELSE IF api \notin DOMAIN by THEN [st EXCEPT !.err = "KeyError"]
         ELSE dfsDeps(by, a, i + 1, dfs(by, by[api], st))

\* mutant of dfs: the node is appended before its dependencies are visited
dfs_preorder(by, a, st) ==
    LET st1 == [st EXCEPT !.visited = @ \cup {a.api}, !.stack = Append(@, a.api),
                          !.calls = @ + 1]
    IN  IF ~a.remote THEN dfsDeps(by, a, 1, st1) ELSE st1

\* mutant of dfs: the dependencies of a remote provider are visited too
dfs_remote_edges(by, a, st) ==
    LET st1 == [st EXCEPT !.visited = @ \cup {a.api}, !.calls = @ + 1]
        st2 == dfsDeps(by, a, 1, st1)
    IN  IF st2.err # "none" THEN st2
        ELSE [st2 EXCEPT !.stack = Append(@, a.api)]

\* dfs(a, visited, stack): st carries visited, stack and a raised error, and
\* counts the calls of dfs
dfs(by, a, st) ==
    LET st1 == [st EXCEPT !.visited = @ \cup {a.api}, !.calls = @ + 1]
        st2 == IF ~a.remote THEN dfsDeps(by, a, 1, st1) ELSE st1
    IN  IF st2.err # "none" THEN st2
        ELSE [st2 EXCEPT !.stack = Append(@, a.api)]

RECURSIVE sortLoop(_, _, _, _)

\* mutant of sortLoop: a root is visited even when it is already in visited
sortLoop_revisit(by, ps, i, st) ==
    IF st.err # "none" \/ i > Len(ps) THEN st
    ELSE sortLoop(by, ps, i + 1, dfs(by, ps[i], st))

\* the loop `for a in providers: if a.api not in visited: dfs(a, visited, stack)`
sortLoop(by, ps, i, st) ==
    IF st.err # "none" \/ i > Len(ps) THEN st
    ELSE IF ps[i].api \in st.visited THEN sortLoop(by, ps, i + 1, st)
    ELSE sortLoop(by, ps, i + 1, dfs(by, ps[i], st))

\* the number of calls of dfs that topological_sort(ps) makes
dfs_calls(ps) ==
    sortLoop(by_id(ps), ps, 1, [visited |-> {}, stack |-> <<>>, err |-> "none",
                                calls |-> 0]).calls

\* topological_sort(providers): [err, order]; order is [by_id[x] for x in stack]
topological_sort(ps) ==
    LET by == by_id(ps)
        st == sortLoop(by, ps, 1, [visited |-> {}, stack |-> <<>>, err |-> "none",
                                   calls |-> 0])
    IN  IF st.err # "none" THEN [err |-> st.err, order |-> <<>>]
        ELSE [err |-> "none", order |-> [k \in DOMAIN st.stack |-> by[st.stack[k]]]]


NoExc == [type |-> "none"]

NoHandler == [outcome |-> "none"]

NoResult == [err |-> "none", order |-> <<>>]

SortIdle == providers = <<>> /\ sort_pc = "idle" /\ sort_result = NoResult

RouteIdle ==
    /\ is_streaming = FALSE /\ handler = NoHandler /\ ep_pc = "idle"
    /\ produced = 0 /\ event_gen = "none" /\ events = <<>>
    /\ statuses = <<>> /\ responses = <<>> /\ raised = NoExc
    /\ cancel_len = -1 /\ serving = TRUE

NoDownstream == [status |-> "none"]

ProxyIdle ==
    /\ downstream = NoDownstream /\ px_pc = "idle" /\ response_started = FALSE
    /\ hdr_i = 0 /\ chunk_i = 0 /\ relayed = <<>> /\ conn_open = FALSE
    /\ px_raised = "none" /\ px_failed_len = -1 /\ px_cancel_len = -1

NoStartupErr == [stage |-> "none", type |-> "none"]

NoEnv == [kind |-> "none", api |-> "none", name |-> "none"]

\* the empty mapping {}
EmptyMap == [x \in {} |-> x]

StartupIdle ==
    /\ config = {} /\ env = NoEnv /\ st_pc = "idle" /\ impls = EmptyMap
    /\ ctor_calls = <<>> /\ st_err = NoStartupErr /\ routes = <<>>
    /\ app_serving = FALSE

EvalIdle ==
    /\ ev_pc = "idle" /\ ev_left = 0 /\ ev_done = 0 /\ thr_alive = FALSE
    /\ worker = "none" /\ main_thread = "idle" /\ other_left = 0

\* dist.provider_specs.values(): at most one spec per Api, in dict order
SortInit ==
    /\ \E apis \in DistinctSeqs(Api, MaxProviders) :
         \E rem \in [DOMAIN apis -> BOOLEAN], deps \in [DOMAIN apis -> DepLists] :
            providers = [i \in DOMAIN apis |->
                [api |-> apis[i], remote |-> rem[i], api_dependencies |-> deps[i]]]
    /\ sort_pc = "input"
    /\ sort_result = NoResult
    /\ RouteIdle
    /\ ProxyIdle
    /\ StartupIdle
    /\ EvalIdle

\* resolve_impls line 255: provider_specs = topological_sort(...)
TopologicalSort ==
    /\ sort_pc = "input"
    /\ sort_result' = topological_sort(providers)
    /\ sort_pc' = "done"
    /\ UNCHANGED providers
    /\ UNCHANGED routeVars
    /\ UNCHANGED proxyVars
    /\ UNCHANGED startupVars
    /\ UNCHANGED evalVars

SortNext == TopologicalSort

SpecSort == SortInit /\ [][SortNext]_vars

(***************************************************************************)
(* Exceptions and the Error Translator                                     *)
(***************************************************************************)
\* what a handler or producer can raise: a pydantic ValidationError (with its
\* raw_errors) or any other Exception (with its text)
ValidationErrors == {[type |-> "ValidationError", raw_errors |-> <<"field required">>]}
OtherExceptions ==
    {[type |-> "RuntimeError", text |-> "internal secret"],
     [type |-> "KeyError", text |-> "model_path"]}
Exceptions == ValidationErrors \cup OtherExceptions

\* mutant of translate_exception: the exception's own text becomes the detail
translate_exception_leaky(exc) ==
    IF exc.type = "ValidationError"
    THEN [type |-> "RequestValidationError", errors |-> exc.raw_errors]
    ELSE [type |-> "HTTPException", status_code |-> 500, detail |-> exc.text]

\* translate_exception(exc)
translate_exception(exc) ==
    IF exc.type = "ValidationError"
    THEN [type |-> "RequestValidationError", errors |-> exc.raw_errors]
    ELSE [type |-> "HTTPException", status_code |-> 500,
          detail |-> "Internal server error"]

\* str() of what translate_exception returns
str(e) ==
    IF e.type = "HTTPException" THEN <<e.status_code, ": ", e.detail>>
    ELSE <<e.type, e.errors>>

(***************************************************************************)
(* SSE framing                                                             *)
(***************************************************************************)
\* what a producer yields: pydantic models and plain JSON values
Items == [cls : {"BaseModel", "dict"}, v : [item : 1..NumValues]]

\* data.json() of a BaseModel, json.dumps(data) of anything else
model_json(data) == [json |-> data.v]
json_dumps(data) == [json |-> data.v]

\* create_sse_event(data): f"data: {data}\n\n"
create_sse_event(data) ==
    [prefix |-> "data: ",
     data |-> IF data.cls = "BaseModel" THEN model_json(data) ELSE json_dumps(data),
     suffix |-> "\n\n"]

\* the dict {"error": {"message": str(translate_exception(e))}} of line 199
ErrorPayload(e) ==
    [cls |-> "dict", v |-> [error |-> [message |-> str(translate_exception(e))]]]

IsErrorEvent(ev) == "error" \in DOMAIN ev.data.json

(***************************************************************************)
(* create_dynamic_typed_route                                              *)
(***************************************************************************)
\* a unary func: returns a value or raises
UnaryHandlers ==
    [outcome : {"return"}, value : Items, exc : {NoExc}] \cup
    [outcome : {"raise"}, value : {[cls |-> "dict", v |-> [item |-> 1]]}, exc : Exceptions]

\* a streaming func: an async generator that yields items and then either is
\* exhausted (fail = NoExc) or raises fail
StreamHandlers ==
    [items : UNION {[1..k -> Items] : k \in 0..MaxItems}, fail : {NoExc} \cup Exceptions]

\* a request whose exception no route catches: it reaches the handler that
\* main registers for Exception
UnhandledRequests ==
    [outcome : {"escape"}, value : {[cls |-> "dict", v |-> [item |-> 1]]}, exc : Exceptions]

RouteInit ==
    /\ is_streaming \in BOOLEAN
    /\ handler \in IF is_streaming THEN StreamHandlers
                   ELSE UnaryHandlers \cup UnhandledRequests
    /\ ep_pc = "request"
    /\ produced = 0 /\ event_gen = "none" /\ events = <<>>
    /\ statuses = <<>> /\ responses = <<>> /\ raised = NoExc
    /\ cancel_len = -1 /\ serving = TRUE
    /\ SortIdle
    /\ ProxyIdle
    /\ StartupIdle
    /\ EvalIdle

\* ---- the unary endpoint (lines 212-224)

\* mutant of UnaryResult: the exception of func is re-raised untranslated
UnaryResult_untranslated(h) ==
    IF h.outcome = "return"
    THEN [returned |-> TRUE, value |-> h.value, exc |-> NoExc]
    ELSE [returned |-> FALSE, value |-> h.value, exc |-> h.exc]

\* endpoint(request): the value func returns, or translate_exception(e) raised
UnaryResult(h) ==
    IF h.outcome = "return"
    THEN [returned |-> TRUE, value |-> h.value, exc |-> NoExc]
    ELSE [returned |-> FALSE, value |-> h.value, exc |-> translate_exception(h.exc)]

\* global_exception_handler(request, exc): the JSONResponse, or the
\* AttributeError of reading status_code / detail off a RequestValidationError
global_exception_handler(exc) ==
    LET http_exc == translate_exception(exc) IN
    IF "status_code" \in DOMAIN http_exc /\ "detail" \in DOMAIN http_exc
    THEN [raised |-> NoExc,
          response |-> [status_code |-> http_exc.status_code,
                        content |-> [error |-> [detail |-> http_exc.detail]]]]
    ELSE [raised |-> [type |-> "AttributeError", text |-> "status_code"],
          response |-> [status_code |-> 0, content |-> [error |-> [detail |-> "none"]]]]

\* the response the application sends for an exception raised by a route:
\* HTTPException and RequestValidationError go to the framework's own handlers,
\* every other Exception to global_exception_handler (line 324)
ExceptionResponse(exc) ==
    IF exc.type = "HTTPException"
    THEN [status_code |-> exc.status_code, content |-> [detail |-> exc.detail]]
    ELSE IF exc.type = "RequestValidationError"
    THEN [status_code |-> 422, content |-> [detail |-> exc.errors]]
    ELSE global_exception_handler(exc).response

\* the unary endpoint runs and the application sends its one response
UnaryEndpoint ==
    /\ ep_pc = "request" /\ ~is_streaming
    /\ handler.outcome \in {"return", "raise"}
    /\ LET r == UnaryResult(handler) IN
         /\ raised' = r.exc
         /\ responses' = Append(responses,
                IF r.returned
                THEN [status_code |-> 200, content |-> model_json(r.value)]
                ELSE ExceptionResponse(r.exc))
         /\ statuses' = Append(statuses,
                IF r.returned THEN 200 ELSE ExceptionResponse(r.exc).status_code)
         /\ serving' = (\/ r.returned
                        \/ r.exc.type \in {"HTTPException", "RequestValidationError"}
                        \/ global_exception_handler(r.exc).raised = NoExc)
    /\ ep_pc' = "done"
    /\ UNCHANGED <<is_streaming, handler, produced, event_gen, events, cancel_len>>
    /\ UNCHANGED sortVars
    /\ UNCHANGED startupVars
    /\ UNCHANGED evalVars
    /\ UNCHANGED proxyVars

\* app.exception_handler(Exception)(global_exception_handler): the handler
\* answers an exception that escaped, or raises itself and answers nothing
GlobalFallback ==
    /\ ep_pc = "request" /\ ~is_streaming
    /\ handler.outcome = "escape"
    /\ LET g == global_exception_handler(handler.exc) IN
         /\ raised' = g.raised
         /\ responses' = IF g.raised = NoExc THEN Append(responses, g.response)
                         ELSE responses
         /\ statuses' = IF g.raised = NoExc THEN Append(statuses, g.response.status_code)
                        ELSE statuses
    /\ ep_pc' = "handled"
    /\ UNCHANGED <<is_streaming, handler, produced, event_gen, events, cancel_len, serving>>
    /\ UNCHANGED sortVars
    /\ UNCHANGED startupVars
    /\ UNCHANGED evalVars
    /\ UNCHANGED proxyVars

\* ---- the streaming endpoint (lines 184-208)

\* StreamingResponse(sse_generator(func(request))): the status is committed
\* and the first __anext__ enters `async for item in event_gen`
StreamStart ==
    /\ ep_pc = "request" /\ is_streaming
    /\ statuses' = Append(statuses, 200)
    /\ event_gen' = "running"
    /\ ep_pc' = "await_next"
    /\ UNCHANGED <<is_streaming, handler, produced, events, responses, raised,
                   cancel_len, serving>>
    /\ UNCHANGED sortVars
    /\ UNCHANGED startupVars
    /\ UNCHANGED evalVars
    /\ UNCHANGED proxyVars

\* mutant of EmitItem: the event is put in front of the earlier ones
EmitItem_reordered(evs, item) == <<create_sse_event(item)>> \o evs

\* `yield create_sse_event(item)` of line 188
EmitItem(evs, item) == Append(evs, create_sse_event(item))

\* event_gen yields its next item; sse_generator yields the event for it
ProducerYield ==
    /\ ep_pc = "await_next" /\ produced < Len(handler.items)
    /\ events' = EmitItem(events, handler.items[produced + 1])
    /\ produced' = produced + 1
    /\ event_gen' = "suspended"
    /\ ep_pc' = "at_yield"
    /\ UNCHANGED <<is_streaming, handler, statuses, responses, raised,
                   cancel_len, serving>>
    /\ UNCHANGED sortVars
    /\ UNCHANGED startupVars
    /\ UNCHANGED evalVars
    /\ UNCHANGED proxyVars

\* the consumer asks for the next event: `await asyncio.sleep(0.01)` of line 189
ConsumerNext ==
    /\ ep_pc = "at_yield"
    /\ ep_pc' = "sleep"
    /\ UNCHANGED <<is_streaming, handler, produced, event_gen, events, statuses,
                   responses, raised, cancel_len, serving>>
    /\ UNCHANGED sortVars
    /\ UNCHANGED startupVars
    /\ UNCHANGED evalVars
    /\ UNCHANGED proxyVars

\* the pause is over: back to `async for`, which awaits event_gen.__anext__()
SleepDone ==
    /\ ep_pc = "sleep"
    /\ event_gen' = "running"
    /\ ep_pc' = "await_next"
    /\ UNCHANGED <<is_streaming, handler, produced, events, statuses,
                   responses, raised, cancel_len, serving>>
    /\ UNCHANGED sortVars
    /\ UNCHANGED startupVars
    /\ UNCHANGED evalVars
    /\ UNCHANGED proxyVars

\* event_gen is exhausted: the loop and sse_generator end
ProducerExhausted ==
    /\ ep_pc = "await_next" /\ produced = Len(handler.items) /\ handler.fail = NoExc
    /\ event_gen' = "exhausted"
    /\ ep_pc' = "done"
    /\ UNCHANGED <<is_streaming, handler, produced, events, statuses,
                   responses, raised, cancel_len, serving>>
    /\ UNCHANGED sortVars
    /\ UNCHANGED startupVars
    /\ UNCHANGED evalVars
    /\ UNCHANGED proxyVars

\* mutant of sse_handler: an Exception of the producer is not caught
sse_handler_uncaught(thrown) ==
    IF thrown = "CancelledError" THEN "aclose" ELSE "propagate"

\* the except clauses of sse_generator (lines 190-204) for what is thrown at
\* its current suspension point: CancelledError, GeneratorExit (both
\* BaseException) or the type of an Exception
sse_handler(thrown) ==
    IF thrown = "CancelledError" THEN "aclose"
    ELSE IF thrown = "GeneratorExit" THEN "propagate"
    ELSE "error_event"

\* event_gen raises: `except Exception` yields the error event
ProducerRaises ==
    /\ ep_pc = "await_next" /\ produced = Len(handler.items) /\ handler.fail # NoExc
    /\ event_gen' = "raised"
    /\ IF sse_handler(handler.fail.type) = "error_event"
       THEN /\ events' = Append(events, create_sse_event(ErrorPayload(handler.fail)))
            /\ ep_pc' = "at_yield_error"
            /\ raised' = raised
       ELSE /\ events' = events
            /\ ep_pc' = "done"
            /\ raised' = handler.fail
    /\ UNCHANGED <<is_streaming, handler, produced, statuses, responses,
                   cancel_len, serving>>
    /\ UNCHANGED sortVars
    /\ UNCHANGED startupVars
    /\ UNCHANGED evalVars
    /\ UNCHANGED proxyVars

\* the consumer asks for the event after the error event: sse_generator ends
ErrorEventConsumed ==
    /\ ep_pc = "at_yield_error"
    /\ ep_pc' = "done"
    /\ UNCHANGED <<is_streaming, handler, produced, event_gen, events, statuses,
                   responses, raised, cancel_len, serving>>
    /\ UNCHANGED sortVars
    /\ UNCHANGED startupVars
    /\ UNCHANGED evalVars
    /\ UNCHANGED proxyVars

\* what cancelling the request throws into sse_generator: CancelledError at
\* an await of the task; at a yield the generator is not running, the
\* consumer is cancelled and the generator is closed with GeneratorExit
ThrownByCancel(pc) ==
    IF pc \in {"await_next", "sleep"} THEN "CancelledError" ELSE "GeneratorExit"

\* the inbound connection is cancelled while sse_generator is suspended
Cancel ==
    /\ is_streaming
    /\ ep_pc \in {"await_next", "at_yield", "sleep", "at_yield_error"}
    /\ cancel_len = -1
    /\ cancel_len' = Len(events)
    /\ LET branch == sse_handler(ThrownByCancel(ep_pc)) IN
         IF branch = "aclose"
         THEN \* print; await event_gen.aclose(); sse_generator returns
              /\ event_gen' = "closed"
              /\ events' = events
              /\ ep_pc' = "done"
         ELSE IF branch = "error_event"
         THEN /\ event_gen' = event_gen
              /\ events' = Append(events, create_sse_event(
                              ErrorPayload([type |-> "CancelledError", text |-> ""])))
              /\ ep_pc' = "at_yield_error"
         ELSE \* no clause matches: sse_generator ends, event_gen is not touched
              /\ event_gen' = event_gen
              /\ events' = events
              /\ ep_pc' = "abandoned"
    /\ UNCHANGED <<is_streaming, handler, produced, statuses, responses,
                   raised, serving>>
    /\ UNCHANGED sortVars
    /\ UNCHANGED startupVars
    /\ UNCHANGED evalVars
    /\ UNCHANGED proxyVars

RouteNext ==
    \/ UnaryEndpoint
    \/ GlobalFallback
    \/ StreamStart
    \/ ProducerYield
    \/ ConsumerNext
    \/ SleepDone
    \/ ProducerExhausted
    \/ ProducerRaises
    \/ ErrorEventConsumed
    \/ Cancel

SpecRoute == RouteInit /\ [][RouteNext]_vars

\* the events of the first n items of the producer, in order
ItemEvents(n) == [k \in 1..n |-> create_sse_event(handler.items[k])]

\* the producer generator has finished (returned, raised or was closed)
ProducerClosed == event_gen \in {"closed", "exhausted", "raised"}

(***************************************************************************)
(* C3: a streaming endpoint emits exactly one SSE event per item the       *)
(* producer yields, in the order the producer yields them, and the stream  *)
(* ends when the producer is exhausted.                                    *)
(***************************************************************************)
C3_OneEventPerItem ==
    is_streaming =>
        /\ Len(events) >= produced
        /\ \A k \in 1..produced : events[k] = create_sse_event(handler.items[k])
        /\ (handler.fail = NoExc => Len(events) = produced)
        /\ (event_gen = "exhausted" =>
                ep_pc = "done" /\ events = ItemEvents(Len(handler.items)))

\* three items, not all equal, streamed to the end
C3_Witness ==
    /\ is_streaming /\ ep_pc = "done" /\ event_gen = "exhausted" /\ cancel_len = -1
    /\ Len(handler.items) = 3
    /\ handler.items[1] # handler.items[2]
    /\ Len(events) = 3

(***************************************************************************)
(* C4: if the producer raises after k >= 0 items, the stream is the k item *)
(* events in order, then exactly one error event {error: {message}}, and   *)
(* it ends; nothing follows the error event and the committed status 200   *)
(* is not changed.                                                         *)
(***************************************************************************)
C4_ErrorEventLast ==
    is_streaming =>
        /\ \A i \in DOMAIN events : IsErrorEvent(events[i]) => i = Len(events)
        /\ (event_gen = "raised" =>
              /\ events = Append(ItemEvents(Len(handler.items)),
                                 create_sse_event(ErrorPayload(handler.fail)))
              /\ IsErrorEvent(events[Len(events)])
              /\ ep_pc \in {"at_yield_error", "done", "abandoned"}
              /\ statuses = <<200>>)

\* the producer raised after two items and the stream has ended
C4_Witness ==
    /\ is_streaming /\ ep_pc = "done" /\ event_gen = "raised" /\ cancel_len = -1
    /\ produced = 2 /\ Len(events) = 3

(***************************************************************************)
(* C5: when the connection is cancelled mid-stream at any suspension point *)
(* (waiting for the next item, at the yield of an event, in the pause), no *)
(* further event is emitted, the producer ends up closed, and no error     *)
(* event reports the cancellation.                                         *)
(***************************************************************************)
C5_CancelClosesProducer ==
    (is_streaming /\ cancel_len >= 0) =>
        /\ Len(events) = cancel_len
        /\ (ep_pc \in {"done", "abandoned"} => ProducerClosed)

(***************************************************************************)
(* The local-provider dependency graph of an input                         *)
(***************************************************************************)
ApisOf(ps) == {ps[i].api : i \in DOMAIN ps}

\* dependency edges: remote providers contribute none
Edges(ps) ==
    UNION {{<<ps[i].api, d>> : d \in Range(ps[i].api_dependencies)} :
               i \in {j \in DOMAIN ps : ~ps[j].remote}}

RECURSIVE ReachFrom(_, _, _)
ReachFrom(E, S, n) ==
    IF n = 0 THEN S
    ELSE ReachFrom(E, S \cup {e[2] : e \in {x \in E : x[1] \in S}}, n - 1)

Succ(E, a) == {e[2] : e \in {x \in E : x[1] = a}}

HasCycle(ps) ==
    \E a \in ApisOf(ps) : a \in ReachFrom(Edges(ps), Succ(Edges(ps), a), Cardinality(Api))

DepsExist(ps) ==
    \A i \in DOMAIN ps : ~ps[i].remote => Range(ps[i].api_dependencies) \subseteq ApisOf(ps)

\* every dependency of a local provider is strictly before it in order
DepsBefore(order) ==
    \A i \in DOMAIN order :
        ~order[i].remote =>
            \A d \in Range(order[i].api_dependencies) :
                \E j \in DOMAIN order : j < i /\ order[j].api = d

(***************************************************************************)
(* C1: for an input whose local-provider dependency graph is acyclic and   *)
(* whose dependencies all exist in the input, topological_sort returns an  *)
(* order in which every dependency of a local provider is strictly before  *)
(* that provider.                                                          *)
(***************************************************************************)
C1_DepsPrecede ==
    (sort_pc = "done" /\ ~HasCycle(providers) /\ DepsExist(providers)) =>
        /\ sort_result.err = "none"
        /\ Len(sort_result.order) = Len(providers)
        /\ DepsBefore(sort_result.order)

\* an acyclic input in which a dependent is listed before its dependency,
\* which itself depends on a third provider: the sort has to reorder
C1_Witness ==
    /\ sort_pc = "done"
    /\ ~HasCycle(providers) /\ DepsExist(providers)
    /\ Len(providers) = 3
    /\ \E i, j \in DOMAIN providers :
          /\ i < j
          /\ ~providers[i].remote /\ ~providers[j].remote
          /\ providers[j].api \in Range(providers[i].api_dependencies)
          /\ providers[j].api_dependencies # <<>>
    /\ DepsBefore(sort_result.order)

(***************************************************************************)
(* C2: for an input whose local-provider dependency graph has a cycle      *)
(* (a self-dependency included), topological_sort fails with CycleError    *)
(* instead of returning an order.                                          *)
(***************************************************************************)
C2_CycleFails ==
    (sort_pc = "done" /\ HasCycle(providers) /\ DepsExist(providers)) =>
        sort_result.err = "CycleError"

(***************************************************************************)
(* passthrough.iterating_response: the reverse proxy forwarder             *)
(***************************************************************************)
\* status code and reason phrase of a downstream response
Statuses == {<<"200", "OK">>, <<"404", "Not Found">>}
\* response.headers.items(): one (key, value) pair per key
HeaderPairs == {<<"content-type", "text/event-stream">>, <<"x-request-id", "7">>}
\* what response.aiter_raw(chunk_size=64) yields
Chunks == {"c1", "c2"}

\* httpx failures of opening the stream (client.stream) and of reading the body
ConnectFailures == {"ReadTimeout", "ConnectTimeout", "ConnectError"}
ReadFailures == {"ReadTimeout", "ReadError"}
DownstreamTimeouts == {"ReadTimeout", "ConnectTimeout"}

\* fail.at = -1: while the stream is opened (no response yet);
\* fail.at = k >= 0: on the read after k body chunks
NoFail == [kind |-> "none", at |-> -1]
Failures ==
    {NoFail} \cup [kind : ConnectFailures, at : {-1}]
             \cup [kind : ReadFailures, at : 0..MaxChunks]

Downstreams ==
    {d \in [status : Statuses,
            headers : DistinctSeqs(HeaderPairs, MaxHeaders),
            chunks : UNION {[1..k -> Chunks] : k \in 0..MaxChunks},
            fail : Failures] : d.fail.at <= Len(d.chunks)}

\* names bound in the module namespace of server.py (imports of lines 7-43
\* and the module's own functions); an except clause looks its class up here
ModuleNames ==
    {"asyncio", "json", "signal", "AsyncGeneratorABC", "AsyncIteratorABC",
     "asynccontextmanager", "Any", "AsyncGenerator", "AsyncIterator", "Dict",
     "get_type_hints", "List", "Optional", "Set", "fire", "httpx", "yaml",
     "load_dotenv", "FastAPI", "HTTPException", "Request",
     "RequestValidationError", "JSONResponse", "StreamingResponse", "APIRoute",
     "BaseModel", "ValidationError", "cprint", "Api", "DistributionSpec",
     "ProviderSpec", "RemoteProviderSpec", "api_endpoints",
     "instantiate_client", "instantiate_provider", "resolve_distribution_spec",
     "is_async_iterator_type", "create_sse_event", "global_exception_handler",
     "translate_exception", "passthrough", "handle_sigint", "lifespan",
     "create_dynamic_passthrough", "create_dynamic_typed_route",
     "topological_sort", "resolve_impls", "main"}

\* enc(x): x.encode("latin-1"); text and bytes are sequences of tokens
enc(x) == [bytes |-> x]

\* mutant of StatusLine: the status line always says 200 OK
StatusLine_fixed200(resp) == enc(<<"HTTP/1.1 ", "200", " ", "OK", "\r\n">>)

\* f"HTTP/1.1 {response.status_code} {response.reason_phrase}\r\n"
StatusLine(resp) == enc(<<"HTTP/1.1 ", resp.status[1], " ", resp.status[2], "\r\n">>)

\* f"{k}: {v}\r\n"
HeaderLine(h) == enc(<<h[1], ": ", h[2], "\r\n">>)

\* b"\r\n"
BlankLine == [bytes |-> <<"\r\n">>]

\* a raw body chunk, yielded as it is
RawChunk(c) == [bytes |-> <<c>>]

\* the synthesized responses and in-band markers of lines 128-142
Synth504 ==
    enc(<<"HTTP/1.1 ", "504", " ", "Gateway Timeout", "\r\n",
          "Content-Type", ": ", "text/plain", "\r\n", "\r\n",
          "Downstream server timed out">>)
TimeoutMarker == enc(<<"\r\n", "\r\n", "Error: ", "Downstream server timed out">>)
Synth500(e) ==
    enc(<<"HTTP/1.1 ", "500", " ", "Internal Server Error", "\r\n",
          "Content-Type", ": ", "text/plain", "\r\n", "\r\n", "Error: ", e>>)
ErrorMarker(e) == enc(<<"\r\n", "\r\n", "Error: ", e>>)

\* the try statement of lines 104-142 for an exception thrown inside it.
\* The clauses are tried in order and each class expression is evaluated when
\* it is tried: `except ReadTimeout` names a class the module never binds, so
\* trying it raises NameError out of the try statement.
px_handler(thrown, started) ==
    IF "ReadTimeout" \notin ModuleNames
    THEN [act |-> "raise", exc |-> "NameError", out |-> BlankLine]
    ELSE IF thrown = "ReadTimeout"
    THEN [act |-> "yield", exc |-> "none",
          out |-> IF ~started THEN Synth504 ELSE TimeoutMarker]
    ELSE IF thrown = "CancelledError"
    THEN [act |-> "return", exc |-> "none", out |-> BlankLine]
    ELSE IF thrown # "GeneratorExit"
    THEN [act |-> "yield", exc |-> "none",
          out |-> IF ~started THEN Synth500(thrown) ELSE ErrorMarker(thrown)]
    ELSE [act |-> "raise", exc |-> thrown, out |-> BlankLine]

\* an exception is thrown inside the try: `async with client.stream` closes
\* the downstream response, then the except clauses run
Thrown(t) ==
    LET h == px_handler(t, response_started) IN
    /\ conn_open' = FALSE
    /\ px_raised' = h.exc
    /\ relayed' = IF h.act = "yield" THEN Append(relayed, h.out) ELSE relayed
    /\ px_pc' = IF h.act = "yield" THEN "yield_error"
                ELSE IF h.act = "return" THEN "done" ELSE "raised"

ProxyInit ==
    /\ downstream \in Downstreams
    /\ px_pc = "connecting" /\ response_started = FALSE
    /\ hdr_i = 0 /\ chunk_i = 0 /\ relayed = <<>> /\ conn_open = FALSE
    /\ px_raised = "none" /\ px_failed_len = -1 /\ px_cancel_len = -1
    /\ SortIdle
    /\ RouteIdle
    /\ StartupIdle
    /\ EvalIdle

\* `async with client.stream(...) as response`: the downstream answers and
\* the status line is yielded, or opening the stream fails
PxConnect ==
    /\ px_pc = "connecting"
    /\ IF downstream.fail.kind # "none" /\ downstream.fail.at = -1
       THEN /\ Thrown(downstream.fail.kind)
            /\ px_failed_len' = Len(relayed)
       ELSE /\ conn_open' = TRUE
            /\ relayed' = Append(relayed, StatusLine(downstream))
            /\ px_pc' = "yield_status"
            /\ UNCHANGED <<px_raised, px_failed_len>>
    /\ UNCHANGED <<downstream, response_started, hdr_i, chunk_i, px_cancel_len>>
    /\ UNCHANGED sortVars
    /\ UNCHANGED startupVars
    /\ UNCHANGED evalVars
    /\ UNCHANGED routeVars

\* the consumer asks for the next bytes while iterating_response is at a yield
PxResume ==
    /\ px_pc \in {"yield_status", "yield_header", "yield_blank", "yield_chunk",
                  "yield_error"}
    /\ CASE px_pc \in {"yield_status", "yield_header"} /\ hdr_i < Len(downstream.headers) ->
              \* for k, v in response.headers.items(): yield enc(f"{k}: {v}\r\n")
              /\ relayed' = Append(relayed, HeaderLine(downstream.headers[hdr_i + 1]))
              /\ hdr_i' = hdr_i + 1
              /\ px_pc' = "yield_header"
              /\ UNCHANGED <<response_started, conn_open>>
         [] px_pc \in {"yield_status", "yield_header"} /\ hdr_i >= Len(downstream.headers) ->
              \* yield b"\r\n"
              /\ relayed' = Append(relayed, BlankLine)
              /\ px_pc' = "yield_blank"
              /\ UNCHANGED <<response_started, hdr_i, conn_open>>
         [] px_pc = "yield_blank" ->
              \* response_started = True; the body loop awaits the first chunk
              /\ response_started' = TRUE
              /\ px_pc' = "reading"
              /\ UNCHANGED <<relayed, hdr_i, conn_open>>
         [] px_pc = "yield_chunk" ->
              /\ px_pc' = "reading"
              /\ UNCHANGED <<relayed, response_started, hdr_i, conn_open>>
         [] px_pc = "yield_error" ->
              \* after the yield of an except clause the generator returns
              /\ px_pc' = "done"
              /\ UNCHANGED <<relayed, response_started, hdr_i, conn_open>>
    /\ UNCHANGED <<downstream, chunk_i, px_raised, px_failed_len, px_cancel_len>>
    /\ UNCHANGED sortVars
    /\ UNCHANGED startupVars
    /\ UNCHANGED evalVars
    /\ UNCHANGED routeVars

\* aiter_raw delivers the next chunk, which is yielded as it is
PxChunk ==
    /\ px_pc = "reading" /\ chunk_i < Len(downstream.chunks)
    /\ ~(downstream.fail.kind # "none" /\ downstream.fail.at = chunk_i)
    /\ relayed' = Append(relayed, RawChunk(downstream.chunks[chunk_i + 1]))
    /\ chunk_i' = chunk_i + 1
    /\ px_pc' = "yield_chunk"
    /\ UNCHANGED <<downstream, response_started, hdr_i, conn_open, px_raised,
                   px_failed_len, px_cancel_len>>
    /\ UNCHANGED sortVars
    /\ UNCHANGED startupVars
    /\ UNCHANGED evalVars
    /\ UNCHANGED routeVars

\* the body ends: await response.aclose(), the contexts exit, the generator ends
PxEnd ==
    /\ px_pc = "reading" /\ chunk_i = Len(downstream.chunks)
    /\ downstream.fail.kind = "none"
    /\ conn_open' = FALSE
    /\ px_pc' = "done"
    /\ UNCHANGED <<downstream, response_started, hdr_i, chunk_i, relayed, px_raised,
                   px_failed_len, px_cancel_len>>
    /\ UNCHANGED sortVars
    /\ UNCHANGED startupVars
    /\ UNCHANGED evalVars
    /\ UNCHANGED routeVars

\* reading the body fails (timeout or other)
PxReadFails ==
    /\ px_pc = "reading"
    /\ downstream.fail.kind # "none" /\ downstream.fail.at = chunk_i
    /\ px_failed_len' = Len(relayed)
    /\ Thrown(downstream.fail.kind)
    /\ UNCHANGED <<downstream, response_started, hdr_i, chunk_i, px_cancel_len>>
    /\ UNCHANGED sortVars
    /\ UNCHANGED startupVars
    /\ UNCHANGED evalVars
    /\ UNCHANGED routeVars

\* what cancelling the request throws into iterating_response: CancelledError
\* at an await of the task, GeneratorExit when it is suspended at a yield
PxThrownByCancel(pc) ==
    IF pc \in {"connecting", "reading"} THEN "CancelledError" ELSE "GeneratorExit"

\* the client cancels the proxied request
PxCancel ==
    /\ px_pc \in {"connecting", "yield_status", "yield_header", "yield_blank",
                  "reading", "yield_chunk", "yield_error"}
    /\ px_cancel_len = -1
    /\ px_cancel_len' = Len(relayed)
    /\ IF px_pc = "yield_error"
       THEN \* the yield of an except clause is outside the try body
            /\ px_pc' = "done"
            /\ UNCHANGED <<relayed, conn_open, px_raised>>
       ELSE Thrown(PxThrownByCancel(px_pc))
    /\ UNCHANGED <<downstream, response_started, hdr_i, chunk_i, px_failed_len>>
    /\ UNCHANGED sortVars
    /\ UNCHANGED startupVars
    /\ UNCHANGED evalVars
    /\ UNCHANGED routeVars

ProxyNext ==
    \/ PxConnect
    \/ PxResume
    \/ PxChunk
    \/ PxEnd
    \/ PxReadFails
    \/ PxCancel

SpecProxy == ProxyInit /\ [][ProxyNext]_vars

\* iterating_response has ended: returned or raised
PxEnded == px_pc \in {"done", "raised"}

\* a relayed element that starts a status line
IsStatusLine(b) == b.bytes[1] = "HTTP/1.1 "

StatusLineCount == Cardinality({i \in DOMAIN relayed : IsStatusLine(relayed[i])})

\* the bytes of a complete relay of d: status line, header lines, blank line, chunks
FullRelay(d) ==
    <<StatusLine(d)>>
    \o [i \in 1..Len(d.headers) |-> HeaderLine(d.headers[i])]
    \o <<BlankLine>>
    \o [i \in 1..Len(d.chunks) |-> RawChunk(d.chunks[i])]

\* what a client reads off relayed bytes: status, header pairs, body chunks
ParseResponse(r) ==
    LET blank == CHOOSE i \in DOMAIN r :
                    r[i] = BlankLine /\ \A j \in 1..(i - 1) : r[j] # BlankLine
    IN  [status |-> <<r[1].bytes[2], r[1].bytes[4]>>,
         headers |-> [i \in 1..(blank - 2) |-> <<r[i + 1].bytes[1], r[i + 1].bytes[3]>>],
         chunks |-> [i \in 1..(Len(r) - blank) |-> r[blank + i].bytes[1]]]

(***************************************************************************)
(* C6: if the downstream times out (connect or read timeout) before the    *)
(* response has started, the forwarder emits the synthesized               *)
(* `504 Gateway Timeout` status line with its plain-text body and ends;    *)
(* the failure does not propagate out of the forwarder.                    *)
(***************************************************************************)
C6_Timeout504 ==
    (/\ px_failed_len >= 0 /\ px_cancel_len = -1
     /\ downstream.fail.at = -1 /\ downstream.fail.kind \in DownstreamTimeouts) =>
        /\ relayed = <<Synth504>>
        /\ px_raised = "none"

(***************************************************************************)
(* C7: when a downstream failure (timeout or other) occurs after any byte  *)
(* of the response was relayed, only an in-band error marker is appended   *)
(* to what was relayed: at most one status line is emitted per response    *)
(* and no synthesized 504/500 status line follows relayed bytes.           *)
(***************************************************************************)
C7_MarkerAfterStart ==
    (px_failed_len > 0 /\ px_cancel_len = -1) =>
        /\ Len(relayed) = px_failed_len + 1
        /\ relayed[Len(relayed)] \in {TimeoutMarker, ErrorMarker(downstream.fail.kind)}
        /\ StatusLineCount <= 1
        /\ px_raised = "none"

(***************************************************************************)
(* C8: when the client cancels a proxied request, before or after the      *)
(* response started, the forwarder stops at once, emits no further bytes,  *)
(* closes the downstream connection and reports no error.                  *)
(***************************************************************************)
C8_CancelSilent ==
    px_cancel_len >= 0 =>
        /\ PxEnded
        /\ Len(relayed) = px_cancel_len
        /\ ~conn_open
        /\ px_raised = "none"

(***************************************************************************)
(* C9: for a downstream response that completes without failure the        *)
(* relayed bytes are exactly one status line with the downstream's code    *)
(* and reason, every header line in order, a blank line and the body       *)
(* chunks in order, nothing appended: status, headers and body read off    *)
(* the relayed bytes equal the downstream's.                               *)
(***************************************************************************)
C9_RoundTrip ==
    (px_pc = "done" /\ downstream.fail.kind = "none" /\ px_cancel_len = -1) =>
        /\ relayed = FullRelay(downstream)
        /\ StatusLineCount = 1
        /\ ParseResponse(relayed) =
              [status |-> downstream.status, headers |-> downstream.headers,
               chunks |-> downstream.chunks]
        /\ px_raised = "none" /\ ~conn_open

\* a 404 response with two header lines and two different chunks, relayed whole
C9_Witness ==
    /\ px_pc = "done" /\ downstream.fail.kind = "none" /\ px_cancel_len = -1
    /\ downstream.status[1] = "404"
    /\ Len(downstream.headers) = 2
    /\ Len(downstream.chunks) = 2 /\ downstream.chunks[1] # downstream.chunks[2]
    /\ Len(relayed) = 6

(***************************************************************************)
(* C10: a unary endpoint whose handler succeeds produces exactly one       *)
(* response, equal to the handler's output; if the handler fails the one   *)
(* response is a whole error response made from translate_exception, with  *)
(* no partial output, and the serving loop stays alive.                    *)
(***************************************************************************)
C10_UnaryWhole ==
    (~is_streaming /\ ep_pc = "done") =>
        /\ Len(responses) = 1 /\ Len(statuses) = 1
        /\ events = <<>>
        /\ serving
        /\ (handler.outcome = "return" =>
              /\ raised = NoExc
              /\ responses[1] = [status_code |-> 200, content |-> model_json(handler.value)])
        /\ (handler.outcome = "raise" =>
              /\ raised = translate_exception(handler.exc)
              /\ responses[1] = ExceptionResponse(translate_exception(handler.exc))
              /\ responses[1].status_code >= 400
              /\ "detail" \in DOMAIN responses[1].content)

\* a handler that raised an unclassified exception: one 500 response
C10_Witness ==
    /\ ~is_streaming /\ ep_pc = "done"
    /\ handler.outcome = "raise" /\ handler.exc.type = "RuntimeError"
    /\ responses = <<[status_code |-> 500,
                      content |-> [detail |-> "Internal server error"]]>>


(***************************************************************************)
(* Startup: resolve_impls and the route binding of main                    *)
(***************************************************************************)
\* the order of the members of the Api enum, which the distribution's
\* provider_specs dict follows
ApiOrder == <<"inference", "safety", "memory">>

ApiIndex(a) == CHOOSE i \in DOMAIN ApiOrder : ApiOrder[i] = a

\* api_endpoints(): the endpoints each Api declares
api_endpoints ==
    [a \in Api |->
        CASE a = "inference" ->
                 << [name |-> "chat_completion", route |-> "/inference/chat_completion", method |-> "post"],
                    [name |-> "completion", route |-> "/inference/completion", method |-> "post"] >>
          [] a = "safety" ->
                 << [name |-> "run_shields", route |-> "/safety/run_shields", method |-> "post"] >>
          [] OTHER ->
                 << [name |-> "query_documents", route |-> "/memory_bank/query", method |-> "post"] >>]

EndpointNames(a) == {api_endpoints[a][i].name : i \in DOMAIN api_endpoints[a]}

\* what the providers of a run do: every constructor returns a handle with
\* every method, or one constructor raises, or one handle lacks one method
Envs ==
    {NoEnv}
    \cup {[kind |-> "ctor_raises", api |-> a, name |-> "none"] : a \in Api}
    \cup UNION {{[kind |-> "no_method", api |-> a, name |-> n] : n \in EndpointNames(a)} : a \in Api}

\* config["providers"][api.value]; base_url is written as its text before a
\* run of trailing slashes and the number of those slashes
provider_config(a) == [base_url |-> [text |-> <<"http://", a>>, slashes |-> 1]]

\* base_url.rstrip("/")
rstrip_slash(url) == [url EXCEPT !.slashes = 0]

\* instantiate_client(provider_spec, base_url): the client of a remote
\* provider; it is built from the url alone
instantiate_client(spec, base_url) ==
    [api |-> spec.api, kind |-> "client", base_url |-> base_url]

\* instantiate_provider(provider_spec, provider_config, deps): the
\* constructor of a local provider returns a handle or raises
instantiate_provider(spec, cfg, deps, e) ==
    IF e.kind = "ctor_raises" /\ e.api = spec.api
    THEN [raised |-> TRUE, impl |-> [api |-> spec.api, kind |-> "none"]]
    ELSE [raised |-> FALSE,
          impl |-> [api |-> spec.api, kind |-> "provider", config |-> cfg,
                    deps |-> deps,
                    methods |-> IF e.kind = "no_method" /\ e.api = spec.api
                                THEN EndpointNames(spec.api) \ {e.name}
                                ELSE EndpointNames(spec.api)]]

\* one call of a constructor: the mapping's keys when it was made, the deps
\* it was given, whether it returned, and the handle it returned
CtorCall(spec, built, deps, returned, impl) ==
    [api |-> spec.api, remote |-> spec.remote, built |-> built,
     deps |-> deps, returned |-> returned, impl |-> impl]

RECURSIVE implsLoop(_, _, _, _, _)

\* mutant of implsLoop: a dependency that is not yet in impls is left out of
\* deps instead of raising KeyError
implsLoop_skipdeps(order, i, cfg, e, st) ==
    IF st.err # "none" \/ i > Len(order) THEN st
    ELSE LET spec == order[i]
             api == spec.api
             built == DOMAIN st.impls
         IN  IF api \notin cfg THEN [st EXCEPT !.err = "ValueError"]
             ELSE IF spec.remote
             THEN implsLoop(order, i + 1, cfg, e,
                     LET client == instantiate_client(spec, rstrip_slash(provider_config(api).base_url))
                     IN  [st EXCEPT !.impls = @ @@ (api :> client),
                                    !.calls = Append(@, CtorCall(spec, built, EmptyMap, TRUE, client))])
             ELSE LET deps == [d \in Range(spec.api_dependencies) \cap built |-> st.impls[d]]
                      out == instantiate_provider(spec, provider_config(api), deps, e)
                  IN  IF out.raised
                      THEN [st EXCEPT !.err = "ConstructorError",
                                      !.calls = Append(@, CtorCall(spec, built, deps, FALSE, out.impl))]
                      ELSE implsLoop(order, i + 1, cfg, e,
                              [st EXCEPT !.impls = @ @@ (api :> out.impl),
                                         !.calls = Append(@, CtorCall(spec, built, deps, TRUE, out.impl))])

\* mutant of implsLoop: a provider without a config entry is skipped
implsLoop_noconfig(order, i, cfg, e, st) ==
    IF st.err # "none" \/ i > Len(order) THEN st
    ELSE IF order[i].api \notin cfg THEN implsLoop(order, i + 1, cfg, e, st)
    ELSE implsLoop_skipdeps(order, i, cfg, e, st)

\* the loop `for provider_spec in provider_specs` of resolve_impls, from
\* index i on; st carries impls, the constructor calls and a raised error
implsLoop(order, i, cfg, e, st) ==
    IF st.err # "none" \/ i > Len(order) THEN st
    ELSE LET spec == order[i]
             api == spec.api
             built == DOMAIN st.impls
         IN  IF api \notin cfg THEN [st EXCEPT !.err = "ValueError"]
             ELSE IF spec.remote
             THEN implsLoop(order, i + 1, cfg, e,
                     LET client == instantiate_client(spec, rstrip_slash(provider_config(api).base_url))
                     IN  [st EXCEPT !.impls = @ @@ (api :> client),
                                    !.calls = Append(@, CtorCall(spec, built, EmptyMap, TRUE, client))])
             ELSE IF \E d \in Range(spec.api_dependencies) : d \notin built
             THEN [st EXCEPT !.err = "KeyError"]
             ELSE LET deps == [d \in Range(spec.api_dependencies) |-> st.impls[d]]
                      out == instantiate_provider(spec, provider_config(api), deps, e)
                  IN  IF out.raised
                      THEN [st EXCEPT !.err = "ConstructorError",
                                      !.calls = Append(@, CtorCall(spec, built, deps, FALSE, out.impl))]
                      ELSE implsLoop(order, i + 1, cfg, e,
                              [st EXCEPT !.impls = @ @@ (api :> out.impl),
                                         !.calls = Append(@, CtorCall(spec, built, deps, TRUE, out.impl))])

\* resolve_impls(dist, config): [sorted, err, impls, calls]; sorted is the
\* result of its topological_sort call
resolve_impls(ps, cfg, e) ==
    LET sorted == topological_sort(ps)
        st0 == [err |-> "none", impls |-> EmptyMap, calls |-> <<>>]
        st == IF sorted.err # "none" THEN [st0 EXCEPT !.err = sorted.err]
              ELSE implsLoop(sorted.order, 1, cfg, e, st0)
    IN  [sorted |-> sorted, err |-> st.err, impls |-> st.impls, calls |-> st.calls]


RECURSIVE bindEndpoints(_, _, _, _)

\* mutant of bindEndpoints: an endpoint the handle has no method for is
\* skipped instead of aborting
bindEndpoints_skip(spec, impl, j, st) ==
    LET eps == api_endpoints[spec.api] IN
    IF st.err # "none" \/ j > Len(eps) THEN st
    ELSE IF ~spec.remote /\ eps[j].name \notin impl.methods
    THEN bindEndpoints(spec, impl, j + 1, st)
    ELSE bindEndpoints(spec, impl, j + 1,
            [st EXCEPT !.routes = Append(@,
                [route |-> eps[j].route, method |-> eps[j].method, api |-> spec.api,
                 kind |-> IF spec.remote THEN "passthrough" ELSE "typed"])])

\* the loops `for endpoint in endpoints` of main, from index j on: a remote
\* provider gets a passthrough route per endpoint, a local one a typed route
\* per endpoint after the hasattr check
bindEndpoints(spec, impl, j, st) ==
    LET eps == api_endpoints[spec.api] IN
    IF st.err # "none" \/ j > Len(eps) THEN st
    ELSE IF spec.remote
    THEN bindEndpoints(spec, impl, j + 1,
            [st EXCEPT !.routes = Append(@,
                [route |-> eps[j].route, method |-> eps[j].method, api |-> spec.api,
                 kind |-> "passthrough"])])
    ELSE IF eps[j].name \notin impl.methods
    THEN [st EXCEPT !.err = "ValueError"]
    ELSE bindEndpoints(spec, impl, j + 1,
            [st EXCEPT !.routes = Append(@,
                [route |-> eps[j].route, method |-> eps[j].method, api |-> spec.api,
                 kind |-> "typed"])])

RECURSIVE bindLoop(_, _, _, _)
\* the loop `for provider_spec in dist.provider_specs.values()` of main, from
\* index i on; st carries the routes registered on app and a raised error
bindLoop(ps, im, i, st) ==
    IF st.err # "none" \/ i > Len(ps) THEN st
    ELSE IF ps[i].api \notin DOMAIN im THEN [st EXCEPT !.err = "KeyError"]
    ELSE bindLoop(ps, im, i + 1, bindEndpoints(ps[i], im[ps[i].api], 1, st))

\* the distribution's provider specs: a subsequence of ApiOrder
Distributions ==
    {apis \in DistinctSeqs(Api, MaxProviders) :
        \A i, j \in DOMAIN apis : i < j => ApiIndex(apis[i]) < ApiIndex(apis[j])}

\* the api_dependencies lists of the distributions main is started with
StartupDepLists == DistinctSeqs(Api, MaxStartupDeps)

\* main is entered with a distribution, a run config that has an entry for
\* every Api or lacks one, and providers that behave as env says
StartupInit ==
    /\ \E apis \in Distributions :
         \E rem \in [DOMAIN apis -> BOOLEAN], deps \in [DOMAIN apis -> StartupDepLists] :
            providers = [i \in DOMAIN apis |->
                            [api |-> apis[i], remote |-> rem[i],
                             api_dependencies |-> deps[i]]]
    /\ sort_pc = "input"
    /\ sort_result = NoResult
    /\ \E missing \in SUBSET Api, e \in Envs :
         /\ Cardinality(missing) <= 1
         /\ missing # {} => e = NoEnv
         /\ config = Api \ missing
         /\ env = e
    /\ st_pc = "start"
    /\ impls = EmptyMap
    /\ ctor_calls = <<>>
    /\ st_err = NoStartupErr
    /\ routes = <<>>
    /\ app_serving = FALSE
    /\ RouteIdle
    /\ ProxyIdle
    /\ EvalIdle

\* mutant of ResolveImpls: a failure of resolve_impls is swallowed and main
\* goes on with the handles built so far
ResolveImpls_partial ==
    /\ st_pc = "start"
    /\ LET r == resolve_impls(providers, config, env) IN
         /\ sort_pc' = "done"
         /\ sort_result' = r.sorted
         /\ ctor_calls' = r.calls
         /\ impls' = r.impls
         /\ st_pc' = "resolved"
         /\ st_err' = IF r.err = "none" THEN st_err
                      ELSE [stage |-> IF r.sorted.err # "none" THEN "topological_sort"
                                      ELSE "resolve_impls",
                            type |-> r.err]
    /\ UNCHANGED <<providers, config, env, routes, app_serving>>
    /\ UNCHANGED routeVars
    /\ UNCHANGED proxyVars
    /\ UNCHANGED evalVars

\* impls = resolve_impls(dist, config): main goes on with the mapping, or
\* the exception of resolve_impls ends it
ResolveImpls ==
    /\ st_pc = "start"
    /\ LET r == resolve_impls(providers, config, env) IN
         /\ sort_pc' = "done"
         /\ sort_result' = r.sorted
         /\ ctor_calls' = r.calls
         /\ IF r.err = "none"
            THEN /\ impls' = r.impls
                 /\ st_pc' = "resolved"
                 /\ st_err' = st_err
            ELSE /\ impls' = impls
                 /\ st_pc' = "failed"
                 /\ st_err' = [stage |-> IF r.sorted.err # "none" THEN "topological_sort"
                                         ELSE "resolve_impls",
                               type |-> r.err]
    /\ UNCHANGED <<providers, config, env, routes, app_serving>>
    /\ UNCHANGED routeVars
    /\ UNCHANGED proxyVars
    /\ UNCHANGED evalVars

\* the route registration of main: every route is registered, or the
\* ValueError of the hasattr check ends main
BindRoutes ==
    /\ st_pc = "resolved"
    /\ LET b == bindLoop(providers, impls, 1, [err |-> "none", routes |-> <<>>]) IN
         /\ routes' = b.routes
         /\ IF b.err = "none"
            THEN st_pc' = "bound" /\ st_err' = st_err
            ELSE st_pc' = "failed" /\ st_err' = [stage |-> "main", type |-> b.err]
    /\ UNCHANGED <<config, env, impls, ctor_calls, app_serving>>
    /\ UNCHANGED sortVars
    /\ UNCHANGED routeVars
    /\ UNCHANGED proxyVars
    /\ UNCHANGED evalVars

\* uvicorn.run(app, host=listen_host, port=port)
Serve ==
    /\ st_pc = "bound"
    /\ st_pc' = "serving"
    /\ app_serving' = TRUE
    /\ UNCHANGED <<config, env, impls, ctor_calls, st_err, routes>>
    /\ UNCHANGED sortVars
    /\ UNCHANGED routeVars
    /\ UNCHANGED proxyVars
    /\ UNCHANGED evalVars

StartupNext == ResolveImpls \/ BindRoutes \/ Serve

SpecStartup == StartupInit /\ [][StartupNext]_vars


\* main has left resolve_impls, by its return or by its exception
Resolved == st_pc \in {"resolved", "bound", "serving", "failed"}

\* nothing is bound: no mapping was returned, no route is registered or served
NothingBound == impls = EmptyMap /\ routes = <<>> /\ ~app_serving

(***************************************************************************)
(* C11: when the run config has no entry for one of the distribution's     *)
(* capabilities, startup fails inside resolve_impls: no mapping is         *)
(* returned to main, no route is registered and nothing is served; when    *)
(* the dependency graph is sound the failure is the ValueError of the      *)
(* config lookup.                                                          *)
(***************************************************************************)
C11_MissingConfigBindsNothing ==
    (Resolved /\ ~(ApisOf(providers) \subseteq config)) =>
        /\ st_pc = "failed"
        /\ st_err.stage \in {"topological_sort", "resolve_impls"}
        /\ NothingBound
        /\ (~HasCycle(providers) /\ DepsExist(providers)) =>
               st_err = [stage |-> "resolve_impls", type |-> "ValueError"]

\* the entry of the last provider in the order is missing: the providers
\* before it were constructed, and still nothing is bound
C11_Witness ==
    /\ st_pc = "failed"
    /\ st_err = [stage |-> "resolve_impls", type |-> "ValueError"]
    /\ Len(providers) = 3
    /\ Len(ctor_calls) = 2
    /\ ~(ApisOf(providers) \subseteq config)
    /\ NothingBound


\* the spec of capability a in the distribution
SpecOf(a) == by_id(providers)[a]

(***************************************************************************)
(* C12: a remote provider's declared dependencies are inert.  Whatever a   *)
(* remote spec declares, absent capabilities included, topological_sort    *)
(* succeeds and returns the remote spec whenever the dependencies of the   *)
(* local providers exist; resolve_impls builds a remote provider's client  *)
(* without reading the mapping, so it is given no dependency handle and    *)
(* the KeyError of a dependency lookup only ever comes from a local spec.  *)
(***************************************************************************)
C12_RemoteDepsInert ==
    Resolved =>
        /\ DepsExist(providers) =>
              /\ sort_result.err = "none"
              /\ \A i \in DOMAIN providers :
                    providers[i].remote =>
                        \E k \in DOMAIN sort_result.order : sort_result.order[k] = providers[i]
        /\ \A k \in DOMAIN ctor_calls :
              ctor_calls[k].remote =>
                  ctor_calls[k].deps = EmptyMap /\ ctor_calls[k].returned
        /\ st_err = [stage |-> "resolve_impls", type |-> "KeyError"] =>
              ~sort_result.order[Len(ctor_calls) + 1].remote

\* startup reaches serving with one remote provider that declares a
\* capability absent from the distribution and one whose client was built
\* before the capability it declares
C12_Witness ==
    /\ app_serving
    /\ \E i \in DOMAIN providers :
          /\ providers[i].remote
          /\ ~(Range(providers[i].api_dependencies) \subseteq ApisOf(providers))
    /\ \E k \in DOMAIN ctor_calls :
          /\ ctor_calls[k].remote
          /\ \E d \in Range(SpecOf(ctor_calls[k].api).api_dependencies) :
                d \in ApisOf(providers) /\ d \notin ctor_calls[k].built


\* what translate_exception returns for every failure that is not an input
\* validation failure
GenericError ==
    [type |-> "HTTPException", status_code |-> 500, detail |-> "Internal server error"]

(***************************************************************************)
(* C13: every exception that is not a ValidationError is translated to     *)
(* status 500 with the fixed message "Internal server error", whatever     *)
(* its type and text; so the envelope the global handler returns for it    *)
(* and the error event the streaming adapter emits for it carry only that  *)
(* fixed message, never the exception's own text.                          *)
(***************************************************************************)
C13_GenericInternalError ==
    /\ \A e \in OtherExceptions : translate_exception(e) = GenericError
    /\ (~is_streaming /\ ep_pc = "handled" /\ handler.exc \in OtherExceptions) =>
          /\ raised = NoExc
          /\ responses = <<[status_code |-> 500,
                            content |-> [error |-> [detail |-> "Internal server error"]]]>>
    /\ (is_streaming /\ handler.fail \in OtherExceptions) =>
          \A i \in DOMAIN events :
              IsErrorEvent(events[i]) =>
                  events[i].data.json.error.message = str(GenericError)

\* a KeyError carrying a path reached the global handler, which answered
\* with the generic envelope
C13_Witness ==
    /\ ~is_streaming /\ ep_pc = "handled"
    /\ handler.exc = [type |-> "KeyError", text |-> "model_path"]
    /\ Len(responses) = 1
    /\ responses[1].content.error.detail = "Internal server error"


(***************************************************************************)
(* C14: a ValidationError that reaches the global fallback handler is      *)
(* answered with a 4xx status and the envelope {error: {detail}} holding   *)
(* the per-field errors, and the handler itself does not raise.            *)
(***************************************************************************)
C14_ValidationEnvelope ==
    (~is_streaming /\ ep_pc = "handled" /\ handler.exc \in ValidationErrors) =>
        /\ raised = NoExc
        /\ Len(responses) = 1
        /\ responses[1].status_code \in 400..499
        /\ responses[1].content = [error |-> [detail |-> handler.exc.raw_errors]]


(***************************************************************************)
(* EleutherEvalsAdapter.run_evals on the serving loop                      *)
(***************************************************************************)
\* the serving loop holds a run_evals call that is ready to run and other
\* in-flight requests with MaxOtherSteps steps left; _thr may be alive from
\* an earlier call
EvalInit ==
    /\ ev_pc = "scheduled"
    /\ ev_left \in 0..MaxSamples
    /\ ev_done = 0
    /\ thr_alive \in BOOLEAN
    /\ worker = "none"
    /\ main_thread = "scheduler"
    /\ other_left = MaxOtherSteps
    /\ SortIdle
    /\ RouteIdle
    /\ ProxyIdle
    /\ StartupIdle

\* the serving loop runs the run_evals coroutine: it has no await, so the
\* loop's thread goes through evaluate(...) into generate_until, which starts
\* _thr if it is not alive
RunEvalsStart ==
    /\ ev_pc = "scheduled" /\ main_thread = "scheduler"
    /\ ev_pc' = "evaluate"
    /\ main_thread' = "run_evals"
    /\ thr_alive' = TRUE
    /\ UNCHANGED <<ev_left, ev_done, worker, other_left>>
    /\ UNCHANGED sortVars
    /\ UNCHANGED routeVars
    /\ UNCHANGED proxyVars
    /\ UNCHANGED startupVars

\* future = asyncio.run_coroutine_threadsafe(chat_completion_coro_fn, _loop)
SubmitInference ==
    /\ ev_pc = "evaluate" /\ ev_left > 0
    /\ worker' = "pending"
    /\ ev_pc' = "future_result"
    /\ UNCHANGED <<ev_left, ev_done, thr_alive, main_thread, other_left>>
    /\ UNCHANGED sortVars
    /\ UNCHANGED routeVars
    /\ UNCHANGED proxyVars
    /\ UNCHANGED startupVars

\* _loop, run by _thr, runs the chat_completion coroutine to its result
WorkerRuns ==
    /\ worker = "pending" /\ thr_alive
    /\ worker' = "done"
    /\ UNCHANGED <<ev_pc, ev_left, ev_done, thr_alive, main_thread, other_left>>
    /\ UNCHANGED sortVars
    /\ UNCHANGED routeVars
    /\ UNCHANGED proxyVars
    /\ UNCHANGED startupVars

\* response = future.result() returns once the future is done; res.append
FutureResult ==
    /\ ev_pc = "future_result" /\ worker = "done"
    /\ worker' = "none"
    /\ ev_left' = ev_left - 1
    /\ ev_done' = ev_done + 1
    /\ ev_pc' = "evaluate"
    /\ UNCHANGED <<thr_alive, main_thread, other_left>>
    /\ UNCHANGED sortVars
    /\ UNCHANGED routeVars
    /\ UNCHANGED proxyVars
    /\ UNCHANGED startupVars

\* generate_until and evaluate return, run_evals returns its EvaluateResponse
\* and the thread is back in the serving loop
RunEvalsReturn ==
    /\ ev_pc = "evaluate" /\ ev_left = 0
    /\ ev_pc' = "returned"
    /\ main_thread' = "scheduler"
    /\ UNCHANGED <<ev_left, ev_done, thr_alive, worker, other_left>>
    /\ UNCHANGED sortVars
    /\ UNCHANGED routeVars
    /\ UNCHANGED proxyVars
    /\ UNCHANGED startupVars

\* the serving loop runs one step of another in-flight request
OtherRequestStep ==
    /\ main_thread = "scheduler" /\ other_left > 0
    /\ other_left' = other_left - 1
    /\ UNCHANGED <<ev_pc, ev_left, ev_done, thr_alive, worker, main_thread>>
    /\ UNCHANGED sortVars
    /\ UNCHANGED routeVars
    /\ UNCHANGED proxyVars
    /\ UNCHANGED startupVars

EvalNext ==
    \/ RunEvalsStart
    \/ SubmitInference
    \/ WorkerRuns
    \/ FutureResult
    \/ RunEvalsReturn
    \/ OtherRequestStep

SpecEvals == EvalInit /\ [][EvalNext]_vars

\* run_evals has started and not returned
EvalInProgress == ev_pc \in {"evaluate", "future_result"}

(***************************************************************************)
(* C15: the blocking work of the evaluation provider (the synchronous      *)
(* evaluate call of run_evals, the wait for each inference result in       *)
(* generate_until) does not block the serving loop: while an evaluation    *)
(* is in progress, another in-flight request that has a step left can      *)
(* take it.                                                                *)
(***************************************************************************)
C15_EvalDoesNotBlockLoop ==
    (EvalInProgress /\ other_left > 0) => ENABLED OtherRequestStep


(***************************************************************************)
(* C16: when a local provider declares a dependency on a capability that   *)
(* the distribution does not contain, startup fails in topological_sort:   *)
(* no order is returned, no constructor is called, no mapping reaches      *)
(* main and no route is registered or served.                              *)
(***************************************************************************)
C16_MissingDependencyFails ==
    (Resolved /\ ~DepsExist(providers)) =>
        /\ st_pc = "failed"
        /\ st_err = [stage |-> "topological_sort", type |-> "KeyError"]
        /\ sort_result = [err |-> "KeyError", order |-> <<>>]
        /\ ctor_calls = <<>>
        /\ NothingBound

\* two providers with complete config, the second one local and depending
\* on a capability outside the distribution: startup has failed in the sort
C16_Witness ==
    /\ st_pc = "failed"
    /\ st_err.stage = "topological_sort"
    /\ Len(providers) = 2
    /\ config = Api /\ env = NoEnv
    /\ DepsExist(<<providers[1]>>)
    /\ ~providers[2].remote
    /\ ~(Range(providers[2].api_dependencies) \subseteq ApisOf(providers))


\* main has left its route registration, by completing it or by its exception
RoutesBound == st_pc \in {"bound", "serving", "failed"}

\* some local handle in the mapping lacks a method for one of the endpoints
\* its capability declares
SomeMethodMissing ==
    \E i \in DOMAIN providers :
        /\ ~providers[i].remote
        /\ providers[i].api \in DOMAIN impls
        /\ ~(EndpointNames(providers[i].api) \subseteq impls[providers[i].api].methods)

(***************************************************************************)
(* C17: when a local provider's handle has no method named after one of    *)
(* its capability's endpoints, route registration fails with the           *)
(* ValueError of the hasattr check and main ends before uvicorn.run: no    *)
(* route is ever served, the routes registered before the failure          *)
(* included.                                                               *)
(***************************************************************************)
C17_UnboundEndpointAborts ==
    (RoutesBound /\ SomeMethodMissing) =>
        /\ st_pc = "failed"
        /\ st_err = [stage |-> "main", type |-> "ValueError"]
        /\ ~app_serving

\* the routes of an earlier capability and of an earlier endpoint were
\* registered before the check failed; none of them is served
C17_Witness ==
    /\ st_pc = "failed"
    /\ st_err = [stage |-> "main", type |-> "ValueError"]
    /\ SomeMethodMissing
    /\ Len(routes) >= 2
    /\ \E i, j \in DOMAIN routes : routes[i].api # routes[j].api
    /\ ~app_serving


\* the capabilities whose constructor was called and returned a handle
Constructed == {ctor_calls[k].api : k \in {j \in DOMAIN ctor_calls : ctor_calls[j].returned}}

\* resolve_impls ended with an exception
ResolveFailed == st_err.stage \in {"topological_sort", "resolve_impls"}

(***************************************************************************)
(* C18 as stated: in every outcome of resolve_impls either every provider  *)
(* of the distribution has been constructed or none has, and after a       *)
(* failure no mapping reaches route binding.                               *)
(***************************************************************************)
C18_AllOrNoneConstructed ==
    Resolved =>
        /\ Constructed = ApisOf(providers) \/ Constructed = {}
        /\ ResolveFailed => impls = EmptyMap /\ routes = <<>>

(***************************************************************************)
(* C18 amended: in every outcome of resolve_impls either a mapping with a  *)
(* handle for every provider of the distribution is returned, each         *)
(* provider constructed once, or the first failure ends resolve_impls and  *)
(* startup: the providers before the failing one in the order have been    *)
(* constructed, the later ones have not, and no mapping reaches main, so   *)
(* no route is registered or served.                                       *)
(***************************************************************************)
C18_AllOrNoMapping ==
    Resolved =>
        /\ \A k \in DOMAIN ctor_calls : ctor_calls[k].api = sort_result.order[k].api
        /\ ~ResolveFailed =>
              /\ DOMAIN impls = ApisOf(providers)
              /\ Constructed = ApisOf(providers)
              /\ Len(ctor_calls) = Len(providers)
        /\ ResolveFailed =>
              /\ st_pc = "failed"
              /\ Constructed # ApisOf(providers)
              /\ NothingBound

\* the third constructor raised after two providers were constructed:
\* startup has failed and nothing is bound
C18_Witness ==
    /\ st_err = [stage |-> "resolve_impls", type |-> "ConstructorError"]
    /\ Len(ctor_calls) = 3
    /\ Cardinality(Constructed) = 2
    /\ NothingBound


\* the handle the constructor call for capability d returned, among the
\* first n calls
BuiltHandle(d, n) ==
    ctor_calls[CHOOSE j \in 1..n : ctor_calls[j].api = d /\ ctor_calls[j].returned].impl

(***************************************************************************)
(* C19: whenever resolve_impls calls the constructor of a local provider,  *)
(* every capability in the provider's api_dependencies already has a       *)
(* handle in the mapping, and the constructor is given exactly the         *)
(* handles of those capabilities; no capability's constructor is called    *)
(* twice, and the mapping resolve_impls returns holds for each capability  *)
(* the one handle its constructor returned.                                *)
(***************************************************************************)
C19_DepsBuiltAndPassed ==
    Resolved =>
        /\ \A k \in DOMAIN ctor_calls :
              ~ctor_calls[k].remote =>
                  LET declared == Range(SpecOf(ctor_calls[k].api).api_dependencies) IN
                  /\ declared \subseteq ctor_calls[k].built
                  /\ ctor_calls[k].built = {ctor_calls[j].api : j \in 1..(k - 1)}
                  /\ DOMAIN ctor_calls[k].deps = declared
                  /\ \A d \in declared : ctor_calls[k].deps[d] = BuiltHandle(d, k - 1)
        /\ \A j, k \in DOMAIN ctor_calls : ctor_calls[j].api = ctor_calls[k].api => j = k
        /\ \A a \in DOMAIN impls : impls[a] = BuiltHandle(a, Len(ctor_calls))

\* a chain of three local providers is serving: the last constructor was
\* given a handle that itself holds the handle of its own dependency
C19_Witness ==
    /\ app_serving
    /\ \E k \in DOMAIN ctor_calls :
          /\ ~ctor_calls[k].remote
          /\ \E d \in DOMAIN ctor_calls[k].deps :
                /\ ctor_calls[k].deps[d].kind = "provider"
                /\ ctor_calls[k].deps[d].deps # EmptyMap


(***************************************************************************)
(* C20: if the downstream fails before the response has started with a     *)
(* failure that is neither a timeout nor a client cancellation, the        *)
(* forwarder emits the synthesized `500 Internal Server Error` status      *)
(* line with the error text as body and nothing else, and ends without     *)
(* the failure leaving it.                                                 *)
(***************************************************************************)
C20_Other500 ==
    (/\ px_failed_len >= 0 /\ px_cancel_len = -1
     /\ downstream.fail.at = -1 /\ downstream.fail.kind \notin DownstreamTimeouts) =>
        /\ relayed = <<Synth500(downstream.fail.kind)>>
        /\ px_raised = "none"


RECURSIVE PostOrderFrom(_, _, _)
RECURSIVE PostOrderDeps(_, _, _, _)

\* the capabilities first reached from a, each after the ones first reached
\* through its dependencies, when the capabilities in seen were reached before
PostOrderFrom(by, a, seen) ==
    IF a \in seen THEN <<>>
    ELSE (IF by[a].remote THEN <<>>
          ELSE PostOrderDeps(by, by[a].api_dependencies, 1, seen \cup {a})) \o <<a>>

PostOrderDeps(by, deps, i, seen) ==
    IF i > Len(deps) THEN <<>>
    ELSE LET first == PostOrderFrom(by, deps[i], seen)
         IN  first \o PostOrderDeps(by, deps, i + 1, seen \cup Range(first))

RECURSIVE PostOrderRoots(_, _, _, _)
\* the post-order of the depth-first traversal whose roots are ps[i], ps[i+1],
\* ... in this order
PostOrderRoots(by, ps, i, seen) ==
    IF i > Len(ps) THEN <<>>
    ELSE LET first == PostOrderFrom(by, ps[i].api, seen)
         IN  first \o PostOrderRoots(by, ps, i + 1, seen \cup Range(first))

(***************************************************************************)
(* C21: for every input in which the dependencies of the local providers   *)
(* exist, with or without a cycle, topological_sort ends after one call of *)
(* dfs per input spec and returns an order that holds the spec of every    *)
(* input capability exactly once; the order is fixed by the input          *)
(* sequence: it is the post-order of the depth-first traversal that takes  *)
(* its roots in input order and the dependencies in declared order.        *)
(***************************************************************************)
C21_TerminatesOncePerSpec ==
    (sort_pc = "done" /\ DepsExist(providers)) =>
        /\ sort_result.err = "none"
        /\ dfs_calls(providers) = Len(providers)
        /\ Len(sort_result.order) = Len(providers)
        /\ \A i \in DOMAIN providers :
              Cardinality({k \in DOMAIN sort_result.order :
                              sort_result.order[k] = providers[i]}) = 1
        /\ LET ref == PostOrderRoots(by_id(providers), providers, 1, {})
           IN  sort_result.order = [k \in DOMAIN ref |-> by_id(providers)[ref[k]]]

\* three local providers on one dependency cycle, listed so that the sort
\* has to start inside the cycle: it ends and returns all three
C21_Witness ==
    /\ sort_pc = "done"
    /\ Len(providers) = 3
    /\ \A i \in DOMAIN providers :
          ~providers[i].remote /\ Len(providers[i].api_dependencies) = 1
    /\ \A a \in ApisOf(providers) :
          ReachFrom(Edges(providers), {a}, 3) = ApisOf(providers)
    /\ sort_result.err = "none"
    /\ Len(sort_result.order) = 3
    /\ sort_result.order[3] = providers[1]

====
